---- MODULE Spec2Model ----
(***************************************************************************)
(* State-machine model of assets/js/main.js: the page script that wires    *)
(* the navbar, the scroll-driven markers, the hero carousel indicators and *)
(* the menu filter to DOM events.  The DOM of the page is the state; every *)
(* listener the script registers is one action; the load handler is a      *)
(* chain of steps that no other event can interleave with.                 *)
(***************************************************************************)
EXTENDS Integers, Sequences, FiniteSets, TLC

(***************************************************************************)
(* Bounds and program constants                                            *)
(***************************************************************************)
\* largest number of slides of the hero carousel
MaxSlides == 2

\* main.js:94  const position = window.scrollY + 200
ScrollLookahead == 200

\* main.js:112 / main.js:126  window.scrollY > 100
ScrolledThreshold == 100

\* main.js:37,39  addEventListener(type, listener, { passive: true })
Passive == TRUE

\* the vertical offsets the window is scrolled to by the user
ScrollOffsets == {0, 100, 101, 199, 200, 250, 700, 701}

\* link fragments that can name a section of the page
Frags == {"#about", "#menu"}

(***************************************************************************)
(* The pages (DOM configurations) the script is loaded into                *)
(***************************************************************************)
NoSection == [present |-> FALSE, offsetTop |-> 0, offsetHeight |-> 0]

Section(top, height) == [present |-> TRUE, offsetTop |-> top, offsetHeight |-> height]

\* "#about" spans [400, 900] and "#menu" starts where it ends
LayoutTouching == [f \in Frags |->
                     IF f = "#about" THEN Section(400, 500) ELSE Section(900, 300)]

\* "#about" at the top of the document, no "#menu" element
LayoutSingle == [f \in Frags |->
                   IF f = "#about" THEN Section(0, 250) ELSE NoSection]

Layouts == {LayoutTouching, LayoutSingle}

NoHeader == [present |-> FALSE, offsetHeight |-> 0]

Header(h) == [present |-> TRUE, offsetHeight |-> h]

\* the elements carrying the class scrollto: three inside #navbar, one outside
ScrollTos == << [hash |-> "#about", inNavbar |-> TRUE],
                [hash |-> "#menu",  inNavbar |-> TRUE],
                [hash |-> "",       inNavbar |-> TRUE],
                [hash |-> "#about", inNavbar |-> FALSE] >>

\* without a #navbar element no scrollto element is inside it
ScrollTosOutside == << [hash |-> "#about", inNavbar |-> FALSE],
                       [hash |-> "#menu",  inNavbar |-> FALSE] >>

\* data-filter attributes of the #menu-flters li controls
DataFilters == << "*", ".filter-starters", ".filter-salads" >>

\* the indicator host's markup before the script runs: absent, empty, or
\* already holding one indicator
Hosts == {"absent", "empty", "filled"}

Libs == {"Isotope", "Swiper", "GLightbox"}

\* the icon classes of .mobile-nav-toggle in the markup: the two icon classes
\* are mutually exclusive, the toggle shows one of them
ToggleMarkup == {{"bi-list"}, {"bi-x"}}

BasePage ==
  [ header       |-> Header(70),
    topbar       |-> TRUE,
    backtotop    |-> TRUE,
    navbar       |-> TRUE,
    toggle       |-> TRUE,
    dropdown     |-> TRUE,
    sections     |-> LayoutTouching,
    scrolltos    |-> ScrollTos,
    activeInit   |-> {1, 3},
    icons        |-> {"bi-list"},
    slides       |-> 1,
    host         |-> "empty",
    menuContainer|-> TRUE,
    filters      |-> DataFilters,
    filterInit   |-> {1},
    missingLib   |-> "none",
    locationHash |-> "" ]

\* pages that vary what the scroll listeners read
ScrollPages ==
  { [BasePage EXCEPT !.header = c[1], !.topbar = c[2], !.backtotop = c[3],
                     !.sections = c[4], !.activeInit = c[5],
                     !.toggle = FALSE, !.dropdown = FALSE,
                     !.menuContainer = FALSE, !.filters = << >>,
                     !.filterInit = {}] :
      c \in {NoHeader, Header(70)} \X BOOLEAN \X BOOLEAN \X Layouts
            \X {{}, {1}, {2, 3, 4}} }

\* pages that vary what the navbar listeners and the smooth-scroll helper read
NavPages ==
  { [BasePage EXCEPT !.header = c[1], !.navbar = c[2], !.icons = c[3],
                     !.locationHash = c[4], !.sections = c[5],
                     !.scrolltos = IF c[2] THEN ScrollTos ELSE ScrollTosOutside,
                     !.activeInit = {},
                     !.menuContainer = FALSE, !.filters = << >>,
                     !.filterInit = {}] :
      c \in {NoHeader, Header(70), Header(100)} \X BOOLEAN
            \X ToggleMarkup \X {"", "#about", "#menu"} \X Layouts }

\* pages that vary what the initializers of the load handler read
BootPages ==
  { [BasePage EXCEPT !.slides = c[1], !.host = c[2], !.menuContainer = c[3],
                     !.missingLib = c[4], !.locationHash = c[5],
                     !.filterInit = c[6],
                     !.toggle = FALSE, !.dropdown = FALSE,
                     !.scrolltos = << >>, !.activeInit = {}] :
      c \in (0..MaxSlides) \X Hosts \X BOOLEAN \X ({"none"} \cup Libs)
            \X {"", "#about"} \X {{1}, {1, 3}} }

Pages == {BasePage} \cup ScrollPages \cup NavPages \cup BootPages

(***************************************************************************)
(* State                                                                   *)
(***************************************************************************)
VARIABLES
  page,            \* the DOM structure the script finds (never changed by it)
  pc,              \* position of the load handler
  ran,             \* the initializers the load handler has called, in order
  loadCalls,       \* the fragments the load handler has passed to scrollTo
  listeners,       \* the listeners registered so far
  scrollY,         \* window.scrollY
  scrollPending,   \* a scroll event is waiting to be dispatched
  pendingNav,      \* the default action of a click, still to be performed
  active,          \* scrollto elements carrying 'active'
  hasHeaderScrolled,  \* #header carries 'header-scrolled'
  hasTopbarScrolled,  \* #topbar carries 'topbar-scrolled'
  hasBacktotopActive, \* .back-to-top carries 'active'
  navbarMobile,    \* #navbar carries 'navbar-mobile'
  toggleIcons,     \* icon classes on .mobile-nav-toggle
  dropdownActive,  \* the dropdown's submenu carries 'dropdown-active'
  filterActive,    \* filter controls carrying 'filter-active'
  indicators,      \* children of #hero-carousel-indicators
  ev               \* the event dispatched last and what its handler did

vars == << page, pc, ran, loadCalls, listeners, scrollY, scrollPending, pendingNav,
           active,
           hasHeaderScrolled, hasTopbarScrolled, hasBacktotopActive, navbarMobile,
           toggleIcons, dropdownActive, filterActive, indicators, ev >>

\* the class markers of the page
markers == << active, hasHeaderScrolled, hasTopbarScrolled, hasBacktotopActive,
              navbarMobile, toggleIcons, dropdownActive, filterActive >>

(***************************************************************************)
(* Helpers of the script                                                   *)
(***************************************************************************)
\* select(el) for a fragment selector: the element it names, if any
select(p, el) == IF el \in Frags THEN p.sections[el] ELSE NoSection

\* document.querySelector('') raises a SyntaxError
selectThrows(el) == el = ""

\* e.preventDefault() inside a listener: ignored when the listener is passive
preventDefault(passive) == ~passive

\* classList.toggle(c)
classToggle(classes, c) == IF c \in classes THEN classes \ {c} ELSE classes \cup {c}

\* scrollTo without the header offset: top: elementPos
scrollToNoOffset(p, el) ==
  IF ~p.header.present \/ ~select(p, el).present
    THEN [threw |-> TRUE, scrolls |-> << >>]
    ELSE [threw |-> FALSE,
          scrolls |-> << [top |-> select(p, el).offsetTop, behavior |-> "smooth"] >>]

\* scrollTo tolerating a missing header: header?.offsetHeight ?? 0
scrollToOptionalHeader(p, el) ==
  IF ~select(p, el).present
    THEN [threw |-> TRUE, scrolls |-> << >>]
    ELSE [threw |-> FALSE,
          scrolls |-> << [top |-> select(p, el).offsetTop
                                  - (IF p.header.present THEN p.header.offsetHeight
                                     ELSE 0),
                          behavior |-> "smooth"] >>]

\* scrollTo(el): what the helper does, given the page
scrollTo(p, el) ==
  IF ~p.header.present
    THEN [threw |-> TRUE, scrolls |-> << >>]
    ELSE IF ~select(p, el).present
      THEN [threw |-> TRUE, scrolls |-> << >>]
      ELSE [threw |-> FALSE,
            scrolls |-> << [top |-> select(p, el).offsetTop - p.header.offsetHeight,
                            behavior |-> "smooth"] >>]

\* navbarlinks = select('#navbar .scrollto', true)
navbarlinks(p) == {i \in DOMAIN p.scrolltos : p.scrolltos[i].inNavbar}

\* the iteration with a strict lower bound: position > section.offsetTop
linkActiveAfterStrict(p, y, act, i) ==
  LET position == y + ScrollLookahead
      hash     == p.scrolltos[i].hash
      section  == select(p, hash)
  IN  IF hash = "" THEN i \in act
      ELSE IF ~section.present THEN i \in act
      ELSE position > section.offsetTop
           /\ position <= section.offsetTop + section.offsetHeight

\* the iteration without its two early returns: a link without a section is
\* marked inactive
linkActiveAfterUnguarded(p, y, act, i) ==
  LET position == y + ScrollLookahead
      section  == select(p, p.scrolltos[i].hash)
  IN  /\ section.present
      /\ position >= section.offsetTop
      /\ position <= section.offsetTop + section.offsetHeight

\* one iteration of the forEach of navbarlinksActive: is link i active afterwards
linkActiveAfter(p, y, act, i) ==
  LET position == y + ScrollLookahead
      hash     == p.scrolltos[i].hash
      section  == select(p, hash)
  IN  IF hash = "" THEN i \in act
      ELSE IF ~section.present THEN i \in act
      ELSE position >= section.offsetTop
           /\ position <= section.offsetTop + section.offsetHeight

\* navbarlinksActive: the elements carrying 'active' after the handler
navbarlinksActive(p, y, act) ==
  {i \in DOMAIN p.scrolltos :
      IF i \in navbarlinks(p) THEN linkActiveAfter(p, y, act, i) ELSE i \in act}

\* headerScrolled: the markers of #header and #topbar after the handler
headerScrolled(p, y, hs, ts) ==
  IF y > ScrolledThreshold
    THEN [header |-> IF p.header.present THEN TRUE ELSE hs,
          topbar |-> IF p.topbar THEN TRUE ELSE ts]
    ELSE [header |-> IF p.header.present THEN FALSE ELSE hs,
          topbar |-> IF p.topbar THEN FALSE ELSE ts]

\* toggleBacktotop: the marker of .back-to-top after the handler
toggleBacktotop(p, y, ba) ==
  IF ~p.backtotop THEN ba
  ELSE IF y > ScrolledThreshold THEN TRUE ELSE FALSE

\* the forEach of initCarouselIndicators from slide `index` on: innerHTML += <li>
RECURSIVE appendIndicators(_, _, _)
appendIndicators(ind, index, n) ==
  IF index >= n THEN ind
  ELSE appendIndicators(Append(ind, [slideTo |-> index, active |-> (index = 0)]),
                        index + 1, n)

\* initCarouselIndicators assigning innerHTML instead of appending to it
initCarouselIndicatorsOverwrite(p, ind) ==
  IF p.slides > 0 /\ p.host = "absent"
    THEN [threw |-> TRUE, indicators |-> ind]
    ELSE [threw |-> FALSE,
          indicators |-> IF p.slides = 0 THEN ind
                         ELSE << [slideTo |-> p.slides - 1,
                                  active  |-> (p.slides - 1 = 0)] >>]

\* initCarouselIndicators: the host's children afterwards, or a TypeError
initCarouselIndicators(p, ind) ==
  IF p.slides > 0 /\ p.host = "absent"
    THEN [threw |-> TRUE, indicators |-> ind]
    ELSE [threw |-> FALSE, indicators |-> appendIndicators(ind, 0, p.slides)]

\* the toggle listener flipping only one of the two icon classes
mobileNavToggleClickOneIcon(p, nm, icons) ==
  IF ~p.navbar
    THEN [threw |-> TRUE, navbarMobile |-> nm, icons |-> icons]
    ELSE [threw |-> FALSE, navbarMobile |-> ~nm,
          icons |-> classToggle(icons, "bi-list")]

\* the click listener of .mobile-nav-toggle
mobileNavToggleClick(p, nm, icons) ==
  IF ~p.navbar
    THEN [threw |-> TRUE, navbarMobile |-> nm, icons |-> icons]
    ELSE [threw |-> FALSE, navbarMobile |-> ~nm,
          icons |-> classToggle(classToggle(icons, "bi-list"), "bi-x")]

\* the filter listener without the removal of 'filter-active' from the others
menuFilterClickKeepOthers(p, fa, f) ==
  [filterActive |-> fa \cup {f},
   arranges     |-> << p.filters[f] >>]

\* the click listener of the filter controls, on control f
menuFilterClick(p, fa, f) ==
  [filterActive |-> (fa \ DOMAIN p.filters) \cup {f},
   arranges     |-> << p.filters[f] >>]

\* the load handler's call sequence
InitOrder == << "initNavbar", "initScrollFunctions", "initCarouselIndicators",
                "initMenuIsotope", "initSwipers", "initGLightbox" >>

\* the load handler with each call wrapped in try/catch: it goes on after a throw
afterInitCaught(name, threw) ==
  LET k == CHOOSE i \in DOMAIN InitOrder : InitOrder[i] = name
  IN  IF k < Len(InitOrder) THEN InitOrder[k + 1] ELSE "hash"

\* where the load handler is after initializer `name` returned or threw
afterInit(name, threw) ==
  IF threw THEN "aborted"
  ELSE LET k == CHOOSE i \in DOMAIN InitOrder : InitOrder[i] = name
       IN  IF k < Len(InitOrder) THEN InitOrder[k + 1] ELSE "hash"

\* the record kept of the event dispatched last
Event(kind, target, handled, prevented, threw, helper, scrolls, arranges) ==
  [kind |-> kind, target |-> target, handled |-> handled, prevented |-> prevented,
   threw |-> threw, helper |-> helper, scrolls |-> scrolls, arranges |-> arranges,
   before |-> << navbarMobile, toggleIcons >>]

NoNav == [pending |-> FALSE, hash |-> ""]

\* no handler is running and no default action is outstanding
Idle == pc \in {"load", "done", "aborted"} /\ ~pendingNav.pending

(***************************************************************************)
(* Initial state: the page as its markup gives it, before the load event   *)
(***************************************************************************)
Init ==
  /\ page \in Pages
  /\ pc = "load"
  /\ ran = << >>
  /\ loadCalls = << >>
  /\ listeners = {}
  /\ scrollY = 0
  /\ scrollPending = FALSE
  /\ pendingNav = NoNav
  /\ active = page.activeInit
  /\ hasHeaderScrolled = FALSE
  /\ hasTopbarScrolled = FALSE
  /\ hasBacktotopActive = FALSE
  /\ navbarMobile = FALSE
  /\ toggleIcons = page.icons
  /\ dropdownActive = FALSE
  /\ filterActive = page.filterInit
  /\ indicators = IF page.host = "filled"
                    THEN << [slideTo |-> 0, active |-> TRUE] >> ELSE << >>
  /\ ev = [kind |-> "none", target |-> 0, handled |-> FALSE, prevented |-> FALSE,
           threw |-> FALSE, helper |-> << >>, scrolls |-> << >>, arranges |-> << >>,
           before |-> << FALSE, page.icons >>]

(***************************************************************************)
(* The load handler (main.js:225-239), one step per call it makes.         *)
(* Events are queued while it runs: every other action waits for Idle.     *)
(***************************************************************************)
\* initNavbar(): registers the three click listeners on the elements found
InitNavbarStep ==
  /\ pc = "load"
  /\ ran' = Append(ran, "initNavbar")
  /\ listeners' = listeners
                  \cup (IF page.toggle THEN {"toggle"} ELSE {})
                  \cup (IF page.dropdown THEN {"dropdown"} ELSE {})
                  \cup (IF page.scrolltos # << >> THEN {"scrollto"} ELSE {})
  /\ pc' = afterInit("initNavbar", FALSE)
  /\ UNCHANGED << page, loadCalls, scrollY, scrollPending, pendingNav, markers,
                  indicators, ev >>

\* initScrollFunctions(): captures the navbar links, registers the scroll listeners
InitScrollFunctionsStep ==
  /\ pc = "initScrollFunctions"
  /\ ran' = Append(ran, "initScrollFunctions")
  /\ listeners' = listeners \cup {"scroll"}
  /\ pc' = afterInit("initScrollFunctions", FALSE)
  /\ UNCHANGED << page, loadCalls, scrollY, scrollPending, pendingNav, markers,
                  indicators, ev >>

\* initCarouselIndicators()
InitCarouselIndicatorsStep ==
  /\ pc = "initCarouselIndicators"
  /\ ran' = Append(ran, "initCarouselIndicators")
  /\ LET r == initCarouselIndicators(page, indicators)
     IN  /\ indicators' = r.indicators
         /\ pc' = afterInit("initCarouselIndicators", r.threw)
  /\ UNCHANGED << page, loadCalls, listeners, scrollY, scrollPending, pendingNav,
                  markers, ev >>

\* initMenuIsotope(): returns early without the container; new Isotope(...) is a
\* ReferenceError when the library is not loaded
InitMenuIsotopeStep ==
  /\ pc = "initMenuIsotope"
  /\ ran' = Append(ran, "initMenuIsotope")
  /\ LET threw == page.menuContainer /\ page.missingLib = "Isotope"
     IN  /\ listeners' = IF page.menuContainer /\ ~threw /\ page.filters # << >>
                           THEN listeners \cup {"filter"} ELSE listeners
         /\ pc' = afterInit("initMenuIsotope", threw)
  /\ UNCHANGED << page, loadCalls, scrollY, scrollPending, pendingNav, markers,
                  indicators, ev >>

\* initSwipers(): new Swiper(...) twice
InitSwipersStep ==
  /\ pc = "initSwipers"
  /\ ran' = Append(ran, "initSwipers")
  /\ pc' = afterInit("initSwipers", page.missingLib = "Swiper")
  /\ UNCHANGED << page, loadCalls, listeners, scrollY, scrollPending, pendingNav, markers,
                  indicators, ev >>

\* initGLightbox(): GLightbox(...)
InitGLightboxStep ==
  /\ pc = "initGLightbox"
  /\ ran' = Append(ran, "initGLightbox")
  /\ pc' = afterInit("initGLightbox", page.missingLib = "GLightbox")
  /\ UNCHANGED << page, loadCalls, listeners, scrollY, scrollPending, pendingNav, markers,
                  indicators, ev >>

\* the hash handling that ends the load handler
LoadHashStep ==
  /\ pc = "hash"
  /\ LET hash   == page.locationHash
         called == hash # "" /\ select(page, hash).present
         r      == IF called THEN scrollTo(page, hash)
                   ELSE [threw |-> FALSE, scrolls |-> << >>]
     IN  /\ ev' = Event("load", 0, TRUE, FALSE, r.threw,
                        IF called THEN << hash >> ELSE << >>, r.scrolls, << >>)
         /\ loadCalls' = IF called THEN Append(loadCalls, hash) ELSE loadCalls
         /\ pc' = IF r.threw THEN "aborted" ELSE "done"
  /\ UNCHANGED << page, ran, listeners, scrollY, scrollPending, pendingNav, markers,
                  indicators >>

(***************************************************************************)
(* Scrolling                                                               *)
(***************************************************************************)
\* the window is scrolled to offset y; a scroll event will follow
WindowScrolls(y) ==
  /\ Idle
  /\ y # scrollY
  /\ scrollY' = y
  /\ scrollPending' = TRUE
  /\ UNCHANGED << page, pc, ran, loadCalls, listeners, pendingNav, markers,
                  indicators, ev >>

\* the scroll event: navbarlinksActive, headerScrolled, toggleBacktotop, in the
\* order they were registered, when they are registered
ScrollEvent ==
  /\ Idle
  /\ scrollPending
  /\ scrollPending' = FALSE
  /\ LET handled == "scroll" \in listeners
         hs      == headerScrolled(page, scrollY, hasHeaderScrolled, hasTopbarScrolled)
     IN  /\ active' = IF handled THEN navbarlinksActive(page, scrollY, active)
                      ELSE active
         /\ hasHeaderScrolled' = IF handled THEN hs.header ELSE hasHeaderScrolled
         /\ hasTopbarScrolled' = IF handled THEN hs.topbar ELSE hasTopbarScrolled
         /\ hasBacktotopActive' =
              IF handled THEN toggleBacktotop(page, scrollY, hasBacktotopActive)
              ELSE hasBacktotopActive
         /\ ev' = Event("scroll", 0, handled, FALSE, FALSE, << >>, << >>, << >>)
  /\ UNCHANGED << page, pc, ran, loadCalls, listeners, scrollY, pendingNav, navbarMobile,
                  toggleIcons, dropdownActive, filterActive, indicators >>

(***************************************************************************)
(* Clicks                                                                  *)
(***************************************************************************)
\* click on .mobile-nav-toggle
ClickToggle ==
  /\ Idle
  /\ page.toggle
  /\ LET handled == "toggle" \in listeners
         r       == mobileNavToggleClick(page, navbarMobile, toggleIcons)
     IN  /\ navbarMobile' = IF handled THEN r.navbarMobile ELSE navbarMobile
         /\ toggleIcons' = IF handled THEN r.icons ELSE toggleIcons
         /\ ev' = Event("toggle", 0, handled, FALSE, handled /\ r.threw,
                        << >>, << >>, << >>)
  /\ UNCHANGED << page, pc, ran, loadCalls, listeners, scrollY, scrollPending, pendingNav,
                  active, hasHeaderScrolled, hasTopbarScrolled, hasBacktotopActive,
                  dropdownActive, filterActive, indicators >>

\* click on a .navbar .dropdown > a link
ClickDropdown ==
  /\ Idle
  /\ page.dropdown
  /\ LET handled == "dropdown" \in listeners
         threw   == handled /\ ~page.navbar
         mobile  == handled /\ ~threw /\ navbarMobile
     IN  /\ dropdownActive' = IF mobile THEN ~dropdownActive ELSE dropdownActive
         /\ ev' = Event("dropdown", 0, handled, mobile /\ preventDefault(Passive),
                        threw, << >>, << >>, << >>)
  /\ UNCHANGED << page, pc, ran, loadCalls, listeners, scrollY, scrollPending, pendingNav,
                  active, hasHeaderScrolled, hasTopbarScrolled, hasBacktotopActive,
                  navbarMobile, toggleIcons, filterActive, indicators >>

\* click on the scrollto element i; the browser's default action for the click
\* (navigation to the link's fragment) follows unless the listener prevented it
ClickScrollto(i) ==
  /\ Idle
  /\ i \in DOMAIN page.scrolltos
  /\ LET hash      == page.scrolltos[i].hash
         handled   == "scrollto" \in listeners
         lookup    == handled /\ selectThrows(hash)
         found     == handled /\ ~lookup /\ select(page, hash).present
         prevented == found /\ preventDefault(Passive)
         r         == IF found THEN scrollTo(page, hash)
                      ELSE [threw |-> FALSE, scrolls |-> << >>]
     IN  /\ ev' = Event("scrollto", i, handled, prevented, lookup \/ r.threw,
                        IF found THEN << hash >> ELSE << >>, r.scrolls, << >>)
         /\ pendingNav' = [pending |-> ~prevented, hash |-> hash]
  /\ UNCHANGED << page, pc, ran, loadCalls, listeners, scrollY, scrollPending, markers,
                  indicators >>

\* the default action of a click on a link: the browser jumps to the fragment's
\* element (to the top of the document for an empty fragment)
DefaultNavigate ==
  /\ pendingNav.pending
  /\ LET hash == pendingNav.hash
         y    == IF hash = "" THEN 0
                 ELSE IF select(page, hash).present THEN select(page, hash).offsetTop
                 ELSE scrollY
     IN  /\ scrollY' = y
         /\ scrollPending' = (scrollPending \/ y # scrollY)
  /\ pendingNav' = NoNav
  /\ UNCHANGED << page, pc, ran, loadCalls, listeners, markers, indicators, ev >>

\* click on the filter control f of #menu-flters
ClickFilter(f) ==
  /\ Idle
  /\ f \in DOMAIN page.filters
  /\ LET handled == "filter" \in listeners
         r       == menuFilterClick(page, filterActive, f)
     IN  /\ filterActive' = IF handled THEN r.filterActive ELSE filterActive
         /\ ev' = Event("filter", f, handled, handled /\ preventDefault(Passive),
                        FALSE, << >>, << >>,
                        IF handled THEN r.arranges ELSE << >>)
  /\ UNCHANGED << page, pc, ran, loadCalls, listeners, scrollY, scrollPending, pendingNav,
                  active, hasHeaderScrolled, hasTopbarScrolled, hasBacktotopActive,
                  navbarMobile, toggleIcons, dropdownActive, indicators >>

Next ==
  \/ InitNavbarStep
  \/ InitScrollFunctionsStep
  \/ InitCarouselIndicatorsStep
  \/ InitMenuIsotopeStep
  \/ InitSwipersStep
  \/ InitGLightboxStep
  \/ LoadHashStep
  \/ \E y \in ScrollOffsets : WindowScrolls(y)
  \/ ScrollEvent
  \/ ClickToggle
  \/ ClickDropdown
  \/ \E i \in 1..Len(ScrollTos) : ClickScrollto(i)
  \/ DefaultNavigate
  \/ \E f \in 1..Len(DataFilters) : ClickFilter(f)

Spec == Init /\ [][Next]_vars

(***************************************************************************)
(* Vocabulary of the properties                                            *)
(***************************************************************************)
\* pos lies in the inclusive vertical span of the section
SpanContains(sec, pos) ==
  sec.offsetTop <= pos /\ pos <= sec.offsetTop + sec.offsetHeight

\* the scrollto element i names a section that exists
Resolves(i) ==
  /\ page.scrolltos[i].hash # ""
  /\ page.scrolltos[i].hash \in Frags
  /\ page.sections[page.scrolltos[i].hash].present

\* the scrollto elements inside #navbar
NavbarLinkIds == {i \in DOMAIN page.scrolltos : page.scrolltos[i].inNavbar}

\* the scroll handlers have just run at the current offset
ScrollHandled == ev.kind = "scroll" /\ ev.handled /\ ~scrollPending

\* the initializer throws on this page
Throws(name) ==
  \/ name = "initCarouselIndicators" /\ page.slides >= 1 /\ page.host = "absent"
  \/ name = "initMenuIsotope" /\ page.menuContainer /\ page.missingLib = "Isotope"
  \/ name = "initSwipers" /\ page.missingLib = "Swiper"
  \/ name = "initGLightbox" /\ page.missingLib = "GLightbox"

\* initializer `name` was called and returned
Completed(name) ==
  \E k \in DOMAIN ran : ran[k] = name /\ (k < Len(ran) \/ pc \in {"hash", "done"})

\* the fragment of the page URL names an element
HashResolves ==
  /\ page.locationHash \in Frags
  /\ page.sections[page.locationHash].present

(***************************************************************************)
(* C1                                                                      *)
(***************************************************************************)
\* C1 as stated: after navbarlinksActive has run at offset y, every navbar link
\* carries 'active' exactly when its fragment names an existing section whose
\* span [top, top + height] contains y + 200; a link with an empty fragment or
\* without a section never carries it.
C1_AllOthersInactive ==
  ScrollHandled =>
    \A i \in NavbarLinkIds :
      (i \in active) <=>
        (Resolves(i) /\ SpanContains(page.sections[page.scrolltos[i].hash],
                                     scrollY + 200))

\* C1 (amended): a scroll event handled at offset y leaves a navbar link whose
\* fragment names an existing section 'active' exactly when y + 200 lies in the
\* inclusive span of that section, and leaves every other navbar link with the
\* marker it carried before the event.
C1_ActiveIffInSpan ==
  [][ (ScrollEvent /\ "scroll" \in listeners) =>
        \A i \in NavbarLinkIds :
          IF Resolves(i)
            THEN (i \in active') <=>
                   SpanContains(page.sections[page.scrolltos[i].hash], scrollY + 200)
            ELSE (i \in active') <=> (i \in active) ]_vars

\* a handled scroll event at the lower edge of "#about" (y + 200 = 400): its link
\* is active, the link of "#menu" is not, and the link with the empty fragment
\* still carries the marker of the markup
C1_Witness ==
  /\ ScrollHandled
  /\ scrollY = 200
  /\ page.sections = LayoutTouching
  /\ 1 \in active
  /\ 2 \notin active
  /\ 3 \in active
  /\ {1, 2, 3} \subseteq NavbarLinkIds

(***************************************************************************)
(* C2                                                                      *)
(***************************************************************************)
\* C2: whenever the load handler has completed and no scroll event is waiting,
\* 'header-scrolled' on the header, 'topbar-scrolled' on the topbar and 'active'
\* on the back-to-top element (each when the element exists) are present iff
\* window.scrollY > 100.
C2_MarkersFollowOffset ==
  (pc = "done" /\ ~scrollPending /\ ~pendingNav.pending) =>
    /\ page.header.present => (hasHeaderScrolled <=> scrollY > 100)
    /\ page.topbar => (hasTopbarScrolled <=> scrollY > 100)
    /\ page.backtotop => (hasBacktotopActive <=> scrollY > 100)

(***************************************************************************)
(* C3                                                                      *)
(***************************************************************************)
\* C3: a click on a scrollto element whose fragment names an existing element,
\* handled by the listener initNavbar registered (on a page with the header, so
\* that the helper does not fail), prevents the default navigation of the click
\* and calls scrollTo exactly once with the fragment.
C3_ClickPreventsDefault ==
  (ev.kind = "scrollto" /\ ev.handled /\ Resolves(ev.target)
   /\ page.header.present) =>
    /\ ev.prevented
    /\ ~pendingNav.pending
    /\ ev.helper = << page.scrolltos[ev.target].hash >>

(***************************************************************************)
(* C4                                                                      *)
(***************************************************************************)
\* C4: the load handler calls the initializers in the order initNavbar,
\* initScrollFunctions, initCarouselIndicators, initMenuIsotope, initSwipers,
\* initGLightbox, each at most once; no initializer is called after one that
\* throws, and then the hash scroll is not performed; scrollTo is called by the
\* load handler at most once, only after all six have returned, and only with
\* a non-empty fragment of the URL that names an existing element.
C4_BootstrapOrder ==
  /\ Len(ran) <= Len(InitOrder)
  /\ \A k \in DOMAIN ran : ran[k] = InitOrder[k]
  /\ \A k \in DOMAIN ran : k < Len(ran) => ~Throws(ran[k])
  /\ (\E k \in DOMAIN ran : Throws(ran[k])) =>
        (pc = "aborted" /\ loadCalls = << >> /\ ev.kind # "load")
  /\ Len(loadCalls) <= 1
  /\ loadCalls # << >> =>
        /\ ran = InitOrder
        /\ \A k \in DOMAIN ran : ~Throws(ran[k])
        /\ page.locationHash # ""
        /\ HashResolves
        /\ loadCalls = << page.locationHash >>

\* initCarouselIndicators threw (a slide, no indicator host) on a page whose URL
\* fragment names an existing element: three initializers were called, the
\* others and the hash scroll were not
C4_Witness ==
  /\ pc = "aborted"
  /\ ran = << "initNavbar", "initScrollFunctions", "initCarouselIndicators" >>
  /\ page.slides >= 1
  /\ page.host = "absent"
  /\ HashResolves
  /\ loadCalls = << >>
  /\ "filter" \notin listeners

(***************************************************************************)
(* C5                                                                      *)
(***************************************************************************)
\* C5: once initMenuIsotope has returned on a page with the menu container,
\* every click on a filter control is handled; a handled click leaves
\* 'filter-active' on the clicked control alone and calls arrange exactly once
\* with the control's data-filter attribute; and nothing but a click on a filter
\* control changes which controls carry 'filter-active', so the control clicked
\* last stays the only one.
C5_FilterClick ==
  /\ [][ ( (\E f \in DOMAIN page.filters : ClickFilter(f))
           /\ page.menuContainer /\ Completed("initMenuIsotope") )
           => ev'.handled ]_vars
  /\ [] ( (ev.kind = "filter" /\ ev.handled) =>
            /\ filterActive = {ev.target}
            /\ ev.arranges = << DataFilters[ev.target] >> )
  /\ [][ (filterActive' # filterActive) => (\E f \in DOMAIN page.filters : ClickFilter(f))
       ]_vars

\* a handled filter click on a page whose markup had two active controls: the
\* second control was clicked and alone carries the marker
C5_Witness ==
  /\ ev.kind = "filter"
  /\ ev.handled
  /\ ev.target = 2
  /\ page.filterInit = {1, 3}
  /\ filterActive = {2}
  /\ ev.arranges = << ".filter-starters" >>

(***************************************************************************)
(* C6                                                                      *)
(***************************************************************************)
\* C6: a click on the mobile nav toggle, handled on a page with the navbar,
\* flips 'navbar-mobile' on the navbar and flips both icon classes of the
\* toggle; in every reachable state the toggle carries exactly one of 'bi-list'
\* and 'bi-x'; and a toggle click that follows a toggle click restores the
\* navbar marker and the icon classes to what they were before the first.
C6_ToggleFlips ==
  /\ [] (Cardinality(toggleIcons \cap {"bi-list", "bi-x"}) = 1)
  /\ [][ (ClickToggle /\ "toggle" \in listeners /\ page.navbar) =>
           /\ navbarMobile' = ~navbarMobile
           /\ ("bi-list" \in toggleIcons') <=> ("bi-list" \notin toggleIcons)
           /\ ("bi-x" \in toggleIcons') <=> ("bi-x" \notin toggleIcons) ]_vars
  /\ [][ (ClickToggle /\ ev.kind = "toggle") =>
           << navbarMobile', toggleIcons' >> = ev.before ]_vars

\* two handled toggle clicks in a row: the first set 'navbar-mobile' and 'bi-x',
\* the second restored the markup's state
C6_Witness ==
  /\ ev.kind = "toggle"
  /\ ev.handled
  /\ ~ev.threw
  /\ page.icons = {"bi-list"}
  /\ ev.before = << TRUE, {"bi-x"} >>
  /\ navbarMobile = FALSE
  /\ toggleIcons = {"bi-list"}

(***************************************************************************)
(* C7                                                                      *)
(***************************************************************************)
\* C7: after initCarouselIndicators has returned on a page with n slides and an
\* initially empty indicator host, the host holds exactly n indicators, the
\* i-th (from 0) carrying slide index i, and 'active' is on the indicator at
\* ordinal 0 and on no other.
C7_Indicators ==
  (page.host = "empty" /\ Completed("initCarouselIndicators")) =>
    /\ Len(indicators) = page.slides
    /\ \A i \in 0 .. page.slides - 1 :
         /\ indicators[i + 1].slideTo = i
         /\ indicators[i + 1].active <=> (i = 0)

\* two slides, an empty host: two indicators, the first active
C7_Witness ==
  /\ page.host = "empty"
  /\ page.slides = 2
  /\ Completed("initCarouselIndicators")
  /\ indicators = << [slideTo |-> 0, active |-> TRUE],
                     [slideTo |-> 1, active |-> FALSE] >>

(***************************************************************************)
(* C8                                                                      *)
(***************************************************************************)
\* C8: with the header present (height h), every call of scrollTo on the
\* fragment of an existing element (offset t), from a scrollto click or from
\* the load handler, requests exactly one window scroll, to t - h, with smooth
\* behaviour.
C8_ScrollDestination ==
  (ev.kind \in {"scrollto", "load"} /\ ev.helper # << >> /\ page.header.present) =>
    /\ Len(ev.helper) = 1
    /\ ev.helper[1] \in Frags
    /\ page.sections[ev.helper[1]].present
    /\ ev.scrolls = << [top |-> page.sections[ev.helper[1]].offsetTop
                                - page.header.offsetHeight,
                        behavior |-> "smooth"] >>

\* the load handler scrolled to the URL's fragment and a later click on the
\* link of "#menu" (offset 900) under a header of height 100 requested 800
C8_Witness ==
  /\ loadCalls = << "#about" >>
  /\ pc = "done"
  /\ ev.kind = "scrollto"
  /\ page.header = Header(100)
  /\ ev.helper = << "#menu" >>
  /\ ev.scrolls = << [top |-> 800, behavior |-> "smooth"] >>

(***************************************************************************)
(* C9                                                                      *)
(***************************************************************************)
\* C9: when scrollTo is called (by a scrollto click or by the load handler) on
\* a page without the header, the call ends in an error, no window scroll is
\* requested, and the step leaves window.scrollY and every class marker as
\* they were.
C9_MissingHeader ==
  /\ [] ( (ev.kind \in {"scrollto", "load"} /\ ev.helper # << >>
           /\ ~page.header.present)
            => (ev.threw /\ ev.scrolls = << >>) )
  /\ [][ ( (LoadHashStep \/ \E i \in DOMAIN page.scrolltos : ClickScrollto(i))
           /\ ev'.helper # << >> /\ ~page.header.present )
           => (scrollY' = scrollY /\ markers' = markers) ]_vars

\* a click on a link to an existing section on a page without the header: the
\* helper was called and threw
C9_Witness ==
  /\ ~page.header.present
  /\ ev.kind = "scrollto"
  /\ ev.handled
  /\ ev.helper = << "#about" >>
  /\ ev.threw
  /\ ev.scrolls = << >>
  /\ loadCalls = << "#about" >>
  /\ pc = "aborted"

(***************************************************************************)
(* C10                                                                     *)
(***************************************************************************)
\* C10: a scroll event leaves the 'active' marker of every scrollto element
\* that is outside the navbar, has an empty fragment or names no existing
\* section as it was, and changes nothing but 'active' on navbar links,
\* 'header-scrolled', 'topbar-scrolled' and 'active' on the back-to-top
\* element: 'navbar-mobile', the toggle icons, 'dropdown-active',
\* 'filter-active', the indicators, the listeners and window.scrollY stay.
C10_ScrollFrame ==
  [][ ScrollEvent =>
        /\ \A i \in DOMAIN page.scrolltos :
             (i \notin NavbarLinkIds \/ ~Resolves(i)) =>
               ((i \in active') <=> (i \in active))
        /\ (~page.header.present) => (hasHeaderScrolled' = hasHeaderScrolled)
        /\ (~page.topbar) => (hasTopbarScrolled' = hasTopbarScrolled)
        /\ (~page.backtotop) => (hasBacktotopActive' = hasBacktotopActive)
        /\ UNCHANGED << navbarMobile, toggleIcons, dropdownActive, filterActive,
                        indicators, listeners, scrollY, page, pc, ran, loadCalls,
                        pendingNav >> ]_vars

\* a handled scroll event on the full page, past both thresholds, with the
\* mobile navbar open, a dropdown open and a filter chosen: the link with the
\* empty fragment still carries 'active'
C10_Witness ==
  /\ ScrollHandled
  /\ scrollY = 250
  /\ hasHeaderScrolled
  /\ 3 \in active
  /\ page.scrolltos[3].hash = ""
  /\ navbarMobile
  /\ toggleIcons = {"bi-x"}
  /\ dropdownActive
  /\ filterActive = {2}

====
